---------------------------- MODULE Spec2Model ----------------------------
(***************************************************************************)
(* Event composition, location resolution and submission of the Football   *)
(* Organiser Toolkit: the `create` and `batch-create` commands of cli.py,  *)
(* the geocoding and event-creation helpers of spond_client.py, the stored *)
(* configuration of config.py and update_event of update_helpers.py.       *)
(*                                                                         *)
(* Python values are represented as follows.                               *)
(*   str        a sequence of one-character strings                        *)
(*   int        an integer                                                 *)
(*   float      an integer number of 1e-7 units (coordinates only)         *)
(*   datetime   minutes since 0001-01-01T00:00 minus one day, that is      *)
(*              toordinal() * 1440 + hour * 60 + minute (seconds are 0)    *)
(*   None / x   an optional value is <<>> for None and <<x>> for x         *)
(*   dict       a function from keys (strings) to values                   *)
(*   exception  a record result with field exc naming the exception        *)
(***************************************************************************)
EXTENDS Integers, Sequences, FiniteSets, TLC

VARIABLES
    config,     \* contents of config.json (config.py: load_config / save_config)
    argv,       \* command line of the last invocation
    net,        \* answers the collaborators gave during the last invocation
    outcome,    \* how the last invocation ended
    log,        \* externally visible effects of the last invocation, in order
    composed,   \* events composed by the last invocation, in order
    posted,     \* event_data bodies POSTed by the last invocation, in order
    asked,      \* providers asked, in order, by the process using update_helpers
    updated     \* what its last update_event call did, None before the first

vars == << config, argv, net, outcome, log, composed, posted, asked, updated >>

---------------------------------------------------------------------------
(* Optional values and dictionaries                                        *)

None == << >>

Some(v) == << v >>

IsNone(o) == o = << >>

Val(o) == o[1]

\* dict.get(key): None when the key is missing
Get(d, k) ==
    IF k \in DOMAIN d THEN Some(d[k]) ELSE None

\* dict.get(key, default)
GetOr(d, k, default) ==
    IF k \in DOMAIN d THEN d[k] ELSE default

\* truthiness of an optional dict: None and {} are falsy
TruthyDict(o) ==
    ~IsNone(o) /\ DOMAIN Val(o) # {}

\* `o or d` for an optional int: None and 0 are falsy
OrInt(o, d) ==
    IF ~IsNone(o) /\ Val(o) # 0 THEN Val(o) ELSE d

\* `o or d` for an optional str: None and "" are falsy
OrStr(o, d) ==
    IF ~IsNone(o) /\ Val(o) # << >> THEN Val(o) ELSE d

\* truthiness of an optional str
TruthyStr(o) ==
    ~IsNone(o) /\ Val(o) # << >>

EmptyDict == [k \in {} |-> k]

---------------------------------------------------------------------------
(* str methods and int()                                                   *)

Digits == {"0", "1", "2", "3", "4", "5", "6", "7", "8", "9"}

DigitVal(c) ==
    CASE c = "0" -> 0 [] c = "1" -> 1 [] c = "2" -> 2 [] c = "3" -> 3
      [] c = "4" -> 4 [] c = "5" -> 5 [] c = "6" -> 6 [] c = "7" -> 7
      [] c = "8" -> 8 [] c = "9" -> 9

IsSpace(c) == c \in {" ", "\t", "\n", "\r"}

RECURSIVE lstrip(_)
lstrip(s) ==
    IF s # << >> /\ IsSpace(s[1]) THEN lstrip(Tail(s)) ELSE s

RECURSIVE rstrip(_)
rstrip(s) ==
    IF s # << >> /\ IsSpace(s[Len(s)]) THEN rstrip(SubSeq(s, 1, Len(s) - 1)) ELSE s

\* str.strip()
strip(s) == rstrip(lstrip(s))

\* `sub in s` for str
Contains(s, sub) ==
    \E i \in 0..(Len(s) - Len(sub)) : SubSeq(s, i + 1, i + Len(sub)) = sub

\* number of (possibly overlapping) places where sub occurs in s
Occurrences(s, sub) ==
    Cardinality({i \in 0..(Len(s) - Len(sub)) : SubSeq(s, i + 1, i + Len(sub)) = sub})

\* str.split(sep) for a one-character separator
RECURSIVE split(_, _)
split(s, sep) ==
    IF \E i \in 1..Len(s) : s[i] = sep
    THEN LET i == CHOOSE j \in 1..Len(s) : s[j] = sep /\ \A k \in 1..(j - 1) : s[k] # sep
         IN  << SubSeq(s, 1, i - 1) >> \o split(SubSeq(s, i + 1, Len(s)), sep)
    ELSE << s >>

\* sep.join(parts)
RECURSIVE join(_, _)
join(sep, parts) ==
    IF parts = << >> THEN << >>
    ELSE IF Len(parts) = 1 THEN parts[1]
    ELSE parts[1] \o sep \o join(sep, Tail(parts))

RECURSIVE DigitsValue(_)
DigitsValue(d) ==
    IF d = << >> THEN 0
    ELSE IF d[Len(d)] = "_" THEN DigitsValue(SubSeq(d, 1, Len(d) - 1))
    ELSE 10 * DigitsValue(SubSeq(d, 1, Len(d) - 1)) + DigitVal(d[Len(d)])

\* int() of a string already stripped of surrounding whitespace: one optional
\* sign, then decimal digits that may be grouped by single underscores;
\* anything else is a ValueError
IntOfStripped(t) ==
    LET signed == t # << >> /\ t[1] \in {"+", "-"}
        d      == IF signed THEN Tail(t) ELSE t
        wellformed ==
            /\ d # << >>
            /\ \A i \in 1..Len(d) : d[i] \in Digits \cup {"_"}
            /\ d[1] # "_" /\ d[Len(d)] # "_"
            /\ \A i \in 1..(Len(d) - 1) : ~(d[i] = "_" /\ d[i + 1] = "_")
    IN  IF ~wellformed THEN [exc |-> "ValueError", v |-> 0]
        ELSE [exc |-> "", v |-> IF signed /\ t[1] = "-" THEN 0 - DigitsValue(d) ELSE DigitsValue(d)]

\* int(s)
int(s) == IntOfStripped(strip(s))

---------------------------------------------------------------------------
(* datetime                                                                *)

IsLeap(y) == (y % 4 = 0) /\ ((y % 100 # 0) \/ (y % 400 = 0))

DaysInMonth(y, m) ==
    IF m = 2 THEN (IF IsLeap(y) THEN 29 ELSE 28)
    ELSE IF m \in {4, 6, 9, 11} THEN 30 ELSE 31

RECURSIVE DaysBeforeMonth(_, _)
DaysBeforeMonth(y, m) ==
    IF m = 1 THEN 0 ELSE DaysBeforeMonth(y, m - 1) + DaysInMonth(y, m - 1)

DaysBeforeYear(y) ==
    (y - 1) * 365 + ((y - 1) \div 4) - ((y - 1) \div 100) + ((y - 1) \div 400)

\* datetime(y, m, d).toordinal()
ToOrdinal(y, m, d) == DaysBeforeYear(y) + DaysBeforeMonth(y, m) + d

AllDigits(s) == \A i \in 1..Len(s) : s[i] \in Digits

\* the date of the three parts %Y, %m and %d of a string: %Y is exactly four
\* digits, %m is 1[0-2]|0[1-9]|[1-9], %d is 3[01]|[12]\d|0[1-9]|[1-9]| [1-9],
\* and the day must exist in the month
DateOfParts(p) ==
    LET okY == Len(p[1]) = 4 /\ AllDigits(p[1]) /\ DigitsValue(p[1]) >= 1
        okM == Len(p[2]) \in {1, 2} /\ AllDigits(p[2]) /\ DigitsValue(p[2]) \in 1..12
        dd  == IF Len(p[3]) = 2 /\ p[3][1] = " " THEN Tail(p[3]) ELSE p[3]
        okD == Len(p[3]) \in {1, 2} /\ AllDigits(dd) /\ DigitsValue(dd) \in 1..31
    IN  IF Len(p) = 3 /\ okY /\ okM /\ okD
           /\ DigitsValue(dd) <= DaysInMonth(DigitsValue(p[1]), DigitsValue(p[2]))
        THEN [exc |-> "",
              v   |-> ToOrdinal(DigitsValue(p[1]), DigitsValue(p[2]), DigitsValue(dd)) * 1440]
        ELSE [exc |-> "ValueError", v |-> 0]

\* datetime.strptime(s, "%Y-%m-%d"): the whole string must match the format
strptime(s) == DateOfParts(split(s, "-"))

\* dt.replace(hour=h, minute=m): ValueError unless 0 <= h <= 23 and 0 <= m <= 59
replace(dt, h, m) ==
    IF h \in 0..23 /\ m \in 0..59
    THEN [exc |-> "", v |-> (dt - (dt % 1440)) + h * 60 + m]
    ELSE [exc |-> "ValueError", v |-> 0]

\* dt + timedelta(minutes=n)
PlusMinutes(dt, n) == dt + n

---------------------------------------------------------------------------
(* Templates (cli.py: HOME_DEFAULTS, AWAY_DEFAULTS)                        *)

\* "10:00"
T_10_00 == << "1", "0", ":", "0", "0" >>

\* "BLUE (home) kit\n\nRothamsted venue info: https://drive.google.com/..."
HOME_description ==
    << "B","L","U","E"," ","(","h","o","m","e",")"," ","k","i","t","\n","\n","R","o","t","h",
       "a","m","s","t","e","d"," ","v","e","n","u","e"," ","i","n","f","o",":"," ","h","t","t",
       "p","s",":","/","/","d","r","i","v","e",".","g","o","o","g","l","e",".","c","o","m","/",
       "f","i","l","e","/","d","/","1","Z","2","1","E","2","V","E","u","p","l","3","g","c","1",
       "y","I","s","3","0","5","V","g","Q","9","T","X","E","C","R","K","7","0","/","v","i","e",
       "w","?","u","s","p","=","s","h","a","r","i","n","g" >>

\* "Rothamsted Park"
HOME_feature ==
    << "R","o","t","h","a","m","s","t","e","d"," ","P","a","r","k" >>

\* "Rothamsted Park, Harpenden"
HOME_address ==
    << "R","o","t","h","a","m","s","t","e","d"," ","P","a","r","k",","," ","H","a","r","p","e",
       "n","d","e","n" >>

\* " - TIME AND DETAILS TBC"
AWAY_heading_suffix ==
    << " ","-"," ","T","I","M","E"," ","A","N","D"," ","D","E","T","A","I","L","S"," ","T","B",
       "C" >>

\* "Meeting/kickoff time and full details will be confirmed at least 3 days
\* before the match once notified by the home team."
AWAY_description ==
    << "M","e","e","t","i","n","g","/","k","i","c","k","o","f","f"," ","t","i","m","e"," ","a",
       "n","d"," ","f","u","l","l"," ","d","e","t","a","i","l","s"," ","w","i","l","l"," ","b",
       "e"," ","c","o","n","f","i","r","m","e","d"," ","a","t"," ","l","e","a","s","t"," ","3",
       " ","d","a","y","s"," ","b","e","f","o","r","e"," ","t","h","e"," ","m","a","t","c","h",
       " ","o","n","c","e"," ","n","o","t","i","f","i","e","d"," ","b","y"," ","t","h","e"," ",
       "h","o","m","e"," ","t","e","a","m","." >>

HOME_location_data ==
    [feature   |-> HOME_feature,
     address   |-> HOME_address,
     latitude  |-> 518119540,
     longitude |-> 0 - 3605304,
     country   |-> << "G", "B" >>,
     administrativeAreaLevel1 |-> << "E", "n", "g", "l", "a", "n", "d" >>,
     administrativeAreaLevel2 |->
         << "H", "e", "r", "t", "f", "o", "r", "d", "s", "h", "i", "r", "e" >>]

HOME_DEFAULTS ==
    [time          |-> T_10_00,
     duration      |-> 75,
     meetup_prior  |-> 30,
     description   |-> HOME_description,
     location_data |-> HOME_location_data]

AWAY_DEFAULTS ==
    [time           |-> T_10_00,
     duration       |-> 210,
     meetup_prior   |-> 30,
     heading_suffix |-> AWAY_heading_suffix,
     description    |-> AWAY_description]

---------------------------------------------------------------------------
(* Composition of one event (cli.py: create_cmd)                           *)

\* defaults = HOME_DEFAULTS | AWAY_DEFAULTS | {}
SelectDefaults(home, away) ==
    IF home THEN HOME_DEFAULTS
    ELSE IF away THEN AWAY_DEFAULTS
    ELSE EmptyDict

\* if start_time is None: start_time = defaults.get("time") or "10:00"
ResolveStartTime(start_time, defaults) ==
    IF IsNone(start_time) THEN OrStr(Get(defaults, "time"), T_10_00)
    ELSE Val(start_time)

\* faulty variant of ResolveDuration: `duration or default` in place of the
\* test for None, so that an explicit 0 is replaced by the default
ResolveDuration_Or(duration, defaults) ==
    OrInt(duration, OrInt(Get(defaults, "duration"), 75))

\* if duration is None: duration = defaults.get("duration") or 75
ResolveDuration(duration, defaults) ==
    IF IsNone(duration) THEN OrInt(Get(defaults, "duration"), 75)
    ELSE Val(duration)

\* if meetup_prior is None: meetup_prior = defaults.get("meetup_prior") or 30
ResolveMeetupPrior(meetup_prior, defaults) ==
    IF IsNone(meetup_prior) THEN OrInt(Get(defaults, "meetup_prior"), 30)
    ELSE Val(meetup_prior)

\* faulty variant of ApplyHeadingSuffix: the suffix is appended without the
\* test for its presence
ApplyHeadingSuffix_Always(heading, away, defaults) ==
    IF away /\ "heading_suffix" \in DOMAIN defaults
    THEN heading \o defaults["heading_suffix"]
    ELSE heading

\* heading suffix for away matches
ApplyHeadingSuffix(heading, away, defaults) ==
    IF /\ away
       /\ "heading_suffix" \in DOMAIN defaults
       /\ ~Contains(heading, defaults["heading_suffix"])
    THEN heading \o defaults["heading_suffix"]
    ELSE heading

\* faulty variant of BuildDescription: a user description replaces the
\* template's instead of following it
BuildDescription_Replace(description, defaults) ==
    IF ~IsNone(description) THEN Val(description)
    ELSE IF "description" \in DOMAIN defaults THEN defaults["description"]
    ELSE << >>

\* final_description
BuildDescription(description, defaults) ==
    LET default_desc == IF "description" \in DOMAIN defaults
                        THEN defaults["description"] ELSE << >>
    IN  IF ~IsNone(description) /\ default_desc # << >>
        THEN default_desc \o << "\n", "\n" >> \o Val(description)
        ELSE IF ~IsNone(description) THEN Val(description)
        ELSE default_desc

\* hour, minute = map(int, parts): ValueError on a wrong number of parts or
\* on a part int() rejects
TimeOfParts(parts) ==
    IF Len(parts) # 2 \/ int(parts[1]).exc # "" \/ int(parts[2]).exc # ""
    THEN [exc |-> "ValueError", hour |-> 0, minute |-> 0]
    ELSE [exc |-> "", hour |-> int(parts[1]).v, minute |-> int(parts[2]).v]

\* hour, minute = map(int, s.split(":"))
SplitTime(s) == TimeOfParts(split(s, ":"))

\* try/except ValueError around it: click.BadParameter
Rethrow(t) ==
    IF t.exc = "ValueError" THEN [t EXCEPT !.exc = "BadParameter"] ELSE t

\* create_cmd's "Parse time" block
ParseTime(start_time) == Rethrow(SplitTime(start_time))

\* start, end and meetup from the start replace() gave
TimesFrom(start, duration, meetup_prior) ==
    IF start.exc # ""
    THEN [exc |-> start.exc, start |-> 0, end |-> 0, meetup |-> 0]
    ELSE [exc    |-> "",
          start  |-> start.v,
          end    |-> PlusMinutes(start.v, duration),
          meetup |-> PlusMinutes(start.v, 0 - meetup_prior)]

\* start = date.replace(hour=hour, minute=minute); end = start + duration;
\* meetup = start - meetup_prior.  The replace is outside the try block.
ComputeTimes(date, hour, minute, duration, meetup_prior) ==
    TimesFrom(replace(date, hour, minute), duration, meetup_prior)

---------------------------------------------------------------------------
(* Geocoding (spond_client.py)                                             *)
(*                                                                         *)
(* An HTTP exchange is a record                                            *)
(*   [raised |-> "" or the exception session.get raised,                   *)
(*    ok     |-> r.ok,                                                     *)
(*    json   |-> <<body>> when r.json() decodes, << >> when it raises]     *)

\* the last (winning) entry of {c["types"][0]: c for c in components if c.get("types")}
ComponentOfType(components, t) ==
    LET idx == {i \in 1..Len(components) :
                    components[i].types # << >> /\ components[i].types[1] = t}
    IN  IF idx = {} THEN None
        ELSE Some(components[CHOOSE i \in idx : \A j \in idx : j <= i])

\* one optional key of a dict literal built by `if ...: location_data[k] = v`
OptionalKey(cond, k, v) ==
    IF cond THEN k :> v ELSE EmptyDict

_geocode_google(query, api_key, country, r) ==
    IF r.raised # "" THEN [exc |-> r.raised, v |-> None]
    ELSE IF ~r.ok THEN [exc |-> "", v |-> None]
    ELSE IF IsNone(r.json) THEN [exc |-> "ContentTypeError", v |-> None]
    ELSE LET data == Val(r.json) IN
    IF \/ Get(data, "status") # Some(<< "O", "K" >>)
       \/ IsNone(Get(data, "results"))
       \/ data["results"] = << >>
    THEN [exc |-> "", v |-> None]
    ELSE LET result == data["results"][1] IN
    IF \/ "geometry" \notin DOMAIN result
       \/ "location" \notin DOMAIN result["geometry"]
       \/ {"lat", "lng"} \ DOMAIN result["geometry"]["location"] # {}
    THEN [exc |-> "KeyError", v |-> None]
    ELSE LET geo        == result["geometry"]["location"]
             components == IF "address_components" \in DOMAIN result
                           THEN result["address_components"] ELSE << >>
             pc         == ComponentOfType(components, "postal_code")
             co         == ComponentOfType(components, "country")
             a1         == ComponentOfType(components, "administrative_area_level_1")
             a2         == ComponentOfType(components, "administrative_area_level_2")
             formatted  == IF "formatted_address" \in DOMAIN result
                           THEN result["formatted_address"] ELSE query
         IN  [exc |-> "",
              v   |-> Some(
                  [feature   |-> query,
                   address   |-> formatted,
                   latitude  |-> geo["lat"],
                   longitude |-> geo["lng"]]
                  @@ OptionalKey(~IsNone(pc), "postalCode",
                                 IF IsNone(pc) THEN << >> ELSE Val(pc).long_name)
                  @@ OptionalKey(~IsNone(co), "country",
                                 IF IsNone(co) THEN << >> ELSE Val(co).short_name)
                  @@ OptionalKey(~IsNone(a1), "administrativeAreaLevel1",
                                 IF IsNone(a1) THEN << >> ELSE Val(a1).long_name)
                  @@ OptionalKey(~IsNone(a2), "administrativeAreaLevel2",
                                 IF IsNone(a2) THEN << >> ELSE Val(a2).long_name))]

LowerCase ==
    << "a", "b", "c", "d", "e", "f", "g", "h", "i", "j", "k", "l", "m",
       "n", "o", "p", "q", "r", "s", "t", "u", "v", "w", "x", "y", "z" >>

UpperCase ==
    << "A", "B", "C", "D", "E", "F", "G", "H", "I", "J", "K", "L", "M",
       "N", "O", "P", "Q", "R", "S", "T", "U", "V", "W", "X", "Y", "Z" >>

\* str.upper()
upper(s) ==
    [i \in 1..Len(s) |->
        IF \E k \in 1..26 : LowerCase[k] = s[i]
        THEN UpperCase[CHOOSE k \in 1..26 : LowerCase[k] = s[i]]
        ELSE s[i]]

\* float() of a stripped plain decimal literal, in units of 1e-7: one optional
\* sign, digits with at most one point and at most seven decimals; anything
\* else the samples hold is a ValueError
FloatOfStripped(t) ==
    LET signed == t # << >> /\ t[1] \in {"+", "-"}
        p      == split(IF signed THEN Tail(t) ELSE t, ".")
        frac   == IF Len(p) = 2 THEN p[2] ELSE << >>
        wellformed ==
            /\ Len(p) \in {1, 2}
            /\ AllDigits(p[1]) /\ AllDigits(frac)
            /\ Len(p[1]) + Len(frac) > 0
            /\ Len(frac) <= 7
        mag    == DigitsValue(p[1]) * 10000000
                      + DigitsValue(frac \o [i \in 1..(7 - Len(frac)) |-> "0"])
    IN  IF ~wellformed THEN [exc |-> "ValueError", v |-> 0]
        ELSE [exc |-> "", v |-> IF signed /\ t[1] = "-" THEN 0 - mag ELSE mag]

\* float(s)
float(s) == FloatOfStripped(strip(s))

\* addr.get(k) of a dict whose values are str: None when missing
\* addr.get("town") or addr.get("city") or addr.get("village") or addr.get("suburb") or ""
TownOf(addr) ==
    OrStr(Get(addr, "town"),
      OrStr(Get(addr, "city"),
        OrStr(Get(addr, "village"),
          OrStr(Get(addr, "suburb"), << >>))))

\* faulty variant of LocationFeature: the name the provider returned
LocationFeature_Name(query, name) ==
    name

\* "feature": query -- the label of a geocoded location is the query, whatever
\* name the provider returned
LocationFeature(query, name) ==
    query

\* faulty variant of ShortParts: road and town are added without the tests
\* for a part already present
ShortParts_NoDedupe(name, road, town) ==
    << name >>
    \o (IF road # << >> THEN << road >> ELSE << >>)
    \o (IF town # << >> THEN << town >> ELSE << >>)

\* short_parts: name, then road and town unless empty or already present
ShortParts(name, road, town) ==
    << name >>
    \o (IF road # << >> /\ road # name THEN << road >> ELSE << >>)
    \o (IF town # << >> /\ town # name /\ town # road THEN << town >> ELSE << >>)

_geocode_nominatim(query, country, r) ==
    IF r.raised # "" THEN [exc |-> r.raised, v |-> None]
    ELSE IF ~r.ok THEN [exc |-> "", v |-> None]
    ELSE IF IsNone(r.json) THEN [exc |-> "ContentTypeError", v |-> None]
    ELSE LET results == Val(r.json) IN
    IF results = << >> THEN [exc |-> "", v |-> None]
    ELSE LET result == results[1]
             addr   == IF "address" \in DOMAIN result THEN result["address"] ELSE EmptyDict
             name   == OrStr(Get(result, "name"), query)
             road   == IF "road" \in DOMAIN addr THEN addr["road"] ELSE << >>
             town   == TownOf(addr)
             short_address == join(<< ",", " " >>, ShortParts(name, road, town))
         IN
    IF {"lat", "lon"} \ DOMAIN result # {} THEN [exc |-> "KeyError", v |-> None]
    ELSE IF float(result["lat"]).exc # "" \/ float(result["lon"]).exc # ""
    THEN [exc |-> "ValueError", v |-> None]
    ELSE [exc |-> "",
          v   |-> Some(
              [feature   |-> LocationFeature(query, name),
               address   |-> short_address,
               latitude  |-> float(result["lat"]).v,
               longitude |-> float(result["lon"]).v]
              @@ OptionalKey(TruthyStr(Get(addr, "postcode")), "postalCode",
                             OrStr(Get(addr, "postcode"), << >>))
              @@ OptionalKey(TruthyStr(Get(addr, "country_code")), "country",
                             upper(OrStr(Get(addr, "country_code"), << >>)))
              @@ OptionalKey(TruthyStr(Get(addr, "state")) \/ TruthyStr(Get(addr, "region")),
                             "administrativeAreaLevel1",
                             OrStr(Get(addr, "state"), OrStr(Get(addr, "region"), << >>)))
              @@ OptionalKey(TruthyStr(Get(addr, "county")), "administrativeAreaLevel2",
                             OrStr(Get(addr, "county"), << >>)))]

\* faulty variant of GeocodeProvider: Google whenever the key is stored, also
\* when it is empty
GeocodeProvider_KeyStored(cfg) ==
    IF "google_maps_api_key" \in DOMAIN cfg THEN "google" ELSE "nominatim"

\* which provider geocode() asks: Google when google_maps_api_key is truthy
GeocodeProvider(cfg) ==
    IF TruthyStr(Get(cfg, "google_maps_api_key")) THEN "google" ELSE "nominatim"

\* geocode(query): rg and rn are the exchanges the two providers would have
geocode(query, cfg, rg, rn) ==
    IF GeocodeProvider(cfg) = "google"
    THEN _geocode_google(query, cfg["google_maps_api_key"], << "g", "b" >>, rg)
    ELSE _geocode_nominatim(query, << "g", "b" >>, rn)

---------------------------------------------------------------------------
(* Event creation (spond_client.py: create_event)                          *)

DigitChars == << "0", "1", "2", "3", "4", "5", "6", "7", "8", "9" >>

\* "%0<width>d" % n for n >= 0
RECURSIVE ZeroPad(_, _)
ZeroPad(n, width) ==
    IF width = 0 THEN << >>
    ELSE ZeroPad(n \div 10, width - 1) \o << DigitChars[(n % 10) + 1] >>

YearOf(ordinal) ==
    CHOOSE y \in (ordinal \div 366)..((ordinal \div 365) + 1) :
        DaysBeforeYear(y) < ordinal /\ ordinal <= DaysBeforeYear(y + 1)

MonthOf(y, dayOfYear) ==
    CHOOSE m \in 1..12 :
        DaysBeforeMonth(y, m) < dayOfYear
            /\ dayOfYear <= DaysBeforeMonth(y, m) + DaysInMonth(y, m)

\* "%Y-%m-%dT%H:%M:%S.000Z" of the fields of a datetime whose seconds are 0
FormatTimestamp(y, m, d, hh, mm) ==
    ZeroPad(y, 4) \o << "-" >> \o ZeroPad(m, 2) \o << "-" >> \o ZeroPad(d, 2)
    \o << "T" >> \o ZeroPad(hh, 2) \o << ":" >> \o ZeroPad(mm, 2)
    \o << ":", "0", "0", ".", "0", "0", "0", "Z" >>

\* the timestamp of a datetime in month m of year y
FormatInMonth(dt, y, m) ==
    FormatTimestamp(y, m, (dt \div 1440) - DaysBeforeYear(y) - DaysBeforeMonth(y, m),
                    (dt % 1440) \div 60, dt % 60)

\* the timestamp of a datetime in year y
FormatInYear(dt, y) ==
    FormatInMonth(dt, y, MonthOf(y, (dt \div 1440) - DaysBeforeYear(y)))

\* dt.strftime("%Y-%m-%dT%H:%M:%S.000Z")
strftime(dt) == FormatInYear(dt, YearOf(dt \div 1440))

\* DEFAULT_OWNER_IDS (cli.py)
DEFAULT_OWNER_IDS ==
    << << "3", "4", "6", "2", "2", "E", "B", "E", "3", "3", "8", "D", "2", "C", "6", "D",
          "3", "9", "9", "6", "0", "B", "A", "0", "E", "D", "3", "2", "E", "2", "3", "1" >>,
       << "6", "7", "C", "C", "E", "E", "9", "2", "1", "3", "5", "7", "4", "F", "3", "0",
          "5", "B", "5", "B", "9", "9", "A", "8", "B", "5", "7", "5", "C", "8", "5", "0" >> >>

\* the default of create_event's meetup_prior parameter
DefaultMeetupPrior == 30

\* event_data, the JSON body create_event POSTs.  location and location_data
\* are optional values; location_data, when truthy, takes precedence.
EventData(group_id, heading, start, end, description, location, location_data, meetup_prior, subgroup_id, owner_ids) ==
    LET meetup == PlusMinutes(start, 0 - meetup_prior)
        recipients ==
            [group |-> [id |-> group_id]
                       @@ OptionalKey(TruthyStr(subgroup_id), "subGroups",
                                      << OrStr(subgroup_id, << >>) >>),
             profiles  |-> << >>,
             guardians |-> << >>]
    IN  [heading            |-> heading,
         description        |-> description,
         startTimestamp     |-> strftime(start),
         endTimestamp       |-> strftime(end),
         meetupTimestamp    |-> strftime(meetup),
         meetupPrior        |-> meetup_prior,
         commentsDisabled   |-> FALSE,
         maxAccepted        |-> 0,
         rsvpDate           |-> None,
         visibility         |-> "INVITEES",
         participantsHidden |-> FALSE,
         autoReminderType   |-> "DISABLED",
         autoAccept         |-> FALSE,
         hidden             |-> FALSE,
         payment            |-> EmptyDict,
         attachments        |-> << >>,
         tasks              |-> [openTasks |-> << >>, assignedTasks |-> << >>],
         type               |-> "AVAILABILITY",
         matchEvent         |-> FALSE,
         recipients         |-> recipients]
        @@ OptionalKey(owner_ids # << >>, "owners",
                       [i \in 1..Len(owner_ids) |-> [id |-> owner_ids[i]]])
        @@ OptionalKey(
               TruthyDict(location_data) \/ TruthyStr(location),
               "location",
               IF TruthyDict(location_data)
               THEN Val(location_data)
               ELSE [feature |-> OrStr(location, << >>),
                     address |-> OrStr(location, << >>)])

\* create_event: log in when the client has no token yet, POST the body,
\* RuntimeError on a non-success status.  platform is how the platform
\* answers: "ok", "login_failed" or "rejected".
create_event(event_data, has_token, platform) ==
    LET login == IF has_token THEN << >> ELSE << "login" >>
    IN  IF ~has_token /\ platform = "login_failed"
        THEN [exc |-> "AuthenticationError", log |-> login, posted |-> << >>]
        ELSE IF platform = "rejected"
        THEN [exc    |-> "RuntimeError",
              log    |-> login \o << "POST" >>,
              posted |-> << event_data >>]
        ELSE [exc    |-> "",
              log    |-> login \o << "POST" >>,
              posted |-> << event_data >>]

\* get_credentials (config.py): SystemExit unless username and password are set
get_credentials(cfg) ==
    IF TruthyStr(Get(cfg, "spond_username")) /\ TruthyStr(Get(cfg, "spond_password"))
    THEN [exc |-> "", v |-> << cfg["spond_username"], cfg["spond_password"] >>]
    ELSE [exc |-> "SystemExit", v |-> << >>]

\* get_group_id (config.py): SystemExit unless a group id is set
get_group_id(cfg) ==
    IF TruthyStr(Get(cfg, "group_id"))
    THEN [exc |-> "", v |-> cfg["group_id"]]
    ELSE [exc |-> "SystemExit", v |-> << >>]

---------------------------------------------------------------------------
(* The `create` command (cli.py: create_cmd)                               *)

\* what one invocation leaves behind
Ended(o, l, c, p, n) ==
    [outcome |-> o, log |-> l, composed |-> c, posted |-> p, net |-> n]

\* no collaborator was asked anything
NoNet ==
    [provider |-> "", exchange |-> None, confirm |-> None, platform |-> << >>]

\* the branch of the location block that geocodes: found is what geocode()
\* gave for the location
Geocoded(location, provider, found) ==
    IF found.exc # ""
    THEN [exc |-> found.exc, provider |-> provider,
          log |-> << "echo Geocoding", "load_config", provider >>,
          location_data |-> None, location_display |-> None]
    ELSE IF TruthyDict(found.v)
    THEN [exc |-> "", provider |-> provider,
          log |-> << "echo Geocoding", "load_config", provider, "echo Found" >>,
          location_data    |-> found.v,
          location_display |-> Some(Val(found.v)["address"])]
    ELSE [exc |-> "", provider |-> provider,
          log |-> << "echo Geocoding", "load_config", provider, "echo Geocoding failed" >>,
          location_data    |-> None,
          location_display |-> location]

\* faulty variant of ResolveLocation: the branch of --home is missing
ResolveLocation_NoHome(home, location, defaults, cfg, rg, rn) ==
    IF TruthyStr(location)
    THEN Geocoded(location, GeocodeProvider(cfg), geocode(Val(location), cfg, rg, rn))
    ELSE [exc |-> "", log |-> << >>, provider |-> "",
          location_data |-> None, location_display |-> None]

\* Location: --home uses Rothamsted, an explicit --location gets geocoded.
\* rg and rn are the exchanges the two providers would have.
ResolveLocation(home, location, defaults, cfg, rg, rn) ==
    IF home /\ IsNone(location)
    THEN [exc |-> "", log |-> << >>, provider |-> "",
          location_data    |-> Some(defaults["location_data"]),
          location_display |-> Some(defaults["location_data"]["address"])]
    ELSE IF TruthyStr(location)
    THEN Geocoded(location, GeocodeProvider(cfg), geocode(Val(location), cfg, rg, rn))
    ELSE [exc |-> "", log |-> << >>, provider |-> "",
          location_data |-> None, location_display |-> None]

\* the end of _create: SystemExit of get_credentials leaves no client to
\* close; otherwise the session is closed whatever create_event did
Submitted(cred, sent) ==
    IF cred.exc # ""
    THEN [exc |-> cred.exc, log |-> << "load_config" >>, posted |-> << >>]
    ELSE [exc    |-> sent.exc,
          log    |-> << "load_config", "get_client" >> \o sent.log \o << "close" >>,
          posted |-> sent.posted]

\* _create: credentials, client, create_event
SubmitOne(cfg, ev, platform) ==
    Submitted(
        get_credentials(cfg),
        create_event(
            EventData(ev.group_id, ev.heading, ev.start, ev.end, ev.description,
                      IF ~TruthyDict(ev.location_data) THEN ev.location ELSE None,
                      ev.location_data, ev.meetup_prior, ev.subgroup_id, DEFAULT_OWNER_IDS),
            FALSE, platform))

\* the collaborators asked up to the location block
NetAfterLocation(loc, w) ==
    IF loc.provider = "" THEN NoNet
    ELSE [NoNet EXCEPT !.provider = loc.provider,
                       !.exchange = Some(IF loc.provider = "google"
                                         THEN w.google ELSE w.nominatim)]

\* gid = group_id or get_group_id(): the configuration is read only when no
\* --group-id is given
GroupLookup(a) ==
    IF TruthyStr(a.group_id) THEN << >> ELSE << "load_config" >>

\* the end of create_cmd: sub is what _create did
Finished(a, lg, nt, ev, sub) ==
    Ended(IF sub.exc = "" THEN "created" ELSE sub.exc,
          lg \o sub.log, << ev >>, sub.posted, nt)

\* faulty variant of Preview: --dry-run does not end the command
Preview_NoDryRun(cfg, a, w, lg, nt, ev) ==
    IF a.yes
    THEN Finished(a, lg \o << "preview" >>,
                  IF get_credentials(cfg).exc # "" THEN nt
                  ELSE [nt EXCEPT !.platform = << w.platform >>],
                  ev, SubmitOne(cfg, ev, w.platform))
    ELSE IF ~w.confirm
    THEN Ended("cancelled", lg \o << "preview", "confirm" >>, << ev >>, << >>,
               [nt EXCEPT !.confirm = Some(FALSE)])
    ELSE Finished(a, lg \o << "preview", "confirm" >>,
                  IF get_credentials(cfg).exc # "" THEN [nt EXCEPT !.confirm = Some(TRUE)]
                  ELSE [nt EXCEPT !.confirm = Some(TRUE), !.platform = << w.platform >>],
                  ev, SubmitOne(cfg, ev, w.platform))

\* the preview, then --dry-run, the confirmation and the submission
Preview(cfg, a, w, lg, nt, ev) ==
    IF a.dry_run THEN Ended("dry_run", lg \o << "preview" >>, << ev >>, << >>, nt)
    ELSE IF a.yes
    THEN Finished(a, lg \o << "preview" >>,
                  IF get_credentials(cfg).exc # "" THEN nt
                  ELSE [nt EXCEPT !.platform = << w.platform >>],
                  ev, SubmitOne(cfg, ev, w.platform))
    ELSE IF ~w.confirm
    THEN Ended("cancelled", lg \o << "preview", "confirm" >>, << ev >>, << >>,
               [nt EXCEPT !.confirm = Some(FALSE)])
    ELSE Finished(a, lg \o << "preview", "confirm" >>,
                  IF get_credentials(cfg).exc # "" THEN [nt EXCEPT !.confirm = Some(TRUE)]
                  ELSE [nt EXCEPT !.confirm = Some(TRUE), !.platform = << w.platform >>],
                  ev, SubmitOne(cfg, ev, w.platform))

\* start, end and meetup, and the locals the preview shows
Timed(cfg, a, w, gid, defaults, loc, times) ==
    IF times.exc # ""
    THEN Ended(times.exc, GroupLookup(a) \o loc.log, << >>, << >>, NetAfterLocation(loc, w))
    ELSE Preview(cfg, a, w, GroupLookup(a) \o loc.log, NetAfterLocation(loc, w),
                 [heading          |-> ApplyHeadingSuffix(a.heading, a.away, defaults),
                  start            |-> times.start,
                  end              |-> times.end,
                  meetup           |-> times.meetup,
                  duration         |-> ResolveDuration(a.duration, defaults),
                  meetup_prior     |-> ResolveMeetupPrior(a.meetup_prior, defaults),
                  description      |-> BuildDescription(a.description, defaults),
                  location         |-> a.location,
                  location_data    |-> loc.location_data,
                  location_display |-> loc.location_display,
                  group_id         |-> gid,
                  subgroup_id      |-> a.subgroup_id])

\* after the location block (loc) the time is parsed (t)
Compose(cfg, a, w, date, gid, defaults, loc, t) ==
    IF loc.exc # ""
    THEN Ended(loc.exc, GroupLookup(a) \o loc.log, << >>, << >>, NetAfterLocation(loc, w))
    ELSE IF t.exc # ""
    THEN Ended(t.exc, GroupLookup(a) \o loc.log, << >>, << >>, NetAfterLocation(loc, w))
    ELSE Timed(cfg, a, w, gid, defaults, loc,
               ComputeTimes(date, t.hour, t.minute,
                            ResolveDuration(a.duration, defaults),
                            ResolveMeetupPrior(a.meetup_prior, defaults)))

\* faulty variant of create_cmd: the group id is looked up before the test
\* for --home with --away
create_cmd_LookupFirst(cfg, a, w) ==
    IF strptime(a.date).exc # "" THEN Ended("BadParameter", << >>, << >>, << >>, NoNet)
    ELSE IF ~TruthyStr(a.group_id) /\ get_group_id(cfg).exc # ""
    THEN Ended(get_group_id(cfg).exc, GroupLookup(a), << >>, << >>, NoNet)
    ELSE IF a.home /\ a.away THEN Ended("UsageError", GroupLookup(a), << >>, << >>, NoNet)
    ELSE Compose(cfg, a, w, strptime(a.date).v,
                 IF TruthyStr(a.group_id) THEN Val(a.group_id) ELSE get_group_id(cfg).v,
                 SelectDefaults(a.home, a.away),
                 ResolveLocation(a.home, a.location, SelectDefaults(a.home, a.away), cfg,
                                 w.google, w.nominatim),
                 ParseTime(ResolveStartTime(a.start_time, SelectDefaults(a.home, a.away))))

\* a: the options of the command line; w: what the collaborators would
\* answer.  click converts --date before the command runs.
create_cmd(cfg, a, w) ==
    IF strptime(a.date).exc # "" THEN Ended("BadParameter", << >>, << >>, << >>, NoNet)
    ELSE IF a.home /\ a.away THEN Ended("UsageError", << >>, << >>, << >>, NoNet)
    ELSE IF ~TruthyStr(a.group_id) /\ get_group_id(cfg).exc # ""
    THEN Ended(get_group_id(cfg).exc, GroupLookup(a), << >>, << >>, NoNet)
    ELSE Compose(cfg, a, w, strptime(a.date).v,
                 IF TruthyStr(a.group_id) THEN Val(a.group_id) ELSE get_group_id(cfg).v,
                 SelectDefaults(a.home, a.away),
                 ResolveLocation(a.home, a.location, SelectDefaults(a.home, a.away), cfg,
                                 w.google, w.nominatim),
                 ParseTime(ResolveStartTime(a.start_time, SelectDefaults(a.home, a.away))))

---------------------------------------------------------------------------
(* The collaborators: what a geocoding provider may answer                 *)

\* "The Priory School"
PrioryName ==
    << "T","h","e"," ","P","r","i","o","r","y"," ","S","c","h","o","o","l" >>

\* "Bedford Road"
PrioryRoad ==
    << "B","e","d","f","o","r","d"," ","R","o","a","d" >>

\* "Hitchin"
PrioryTown ==
    << "H","i","t","c","h","i","n" >>

\* "The Priory School, Hitchin"
PrioryQuery ==
    << "T","h","e"," ","P","r","i","o","r","y"," ","S","c","h","o","o","l",","," ","H","i","t",
       "c","h","i","n" >>

Priory ==
    [name |-> PrioryName, road |-> PrioryRoad, town |-> PrioryTown,
     lat  |-> << "5", "1", ".", "9", "5", "4", "1" >>,
     lon  |-> << "-", "0", ".", "2", "8", "0", "5" >>,
     postcode     |-> << "S", "G", "5", " ", "2", "U", "R" >>,
     country_code |-> << "g", "b" >>,
     state        |-> << "E", "n", "g", "l", "a", "n", "d" >>,
     county       |-> << "H", "e", "r", "t", "f", "o", "r", "d", "s", "h", "i", "r", "e" >>]

\* a place whose name, road and town are the same string, with no
\* administrative data
Oval ==
    [name |-> << "O", "v", "a", "l" >>, road |-> << "O", "v", "a", "l" >>,
     town |-> << "O", "v", "a", "l" >>,
     lat  |-> << "5", "1", ".", "5" >>, lon |-> << "0", ".", "1" >>,
     postcode |-> << >>, country_code |-> << >>, state |-> << >>, county |-> << >>]

Places == {Priory, Oval}

GeoKinds ==
    {"network_error", "timeout", "http_error", "bad_json", "no_match", "malformed", "found"}

GeoScenarios ==
    {[kind |-> k, place |-> Priory] : k \in GeoKinds} \cup {[kind |-> "found", place |-> Oval]}

Exchange(raised, ok, json) == [raised |-> raised, ok |-> ok, json |-> json]

\* one entry of Google's address_components
GoogleComponent(type, long, short) ==
    IF long = << >> THEN << >>
    ELSE << [types |-> << type >>, long_name |-> long, short_name |-> short] >>

\* the exchange with the keyed provider in a scenario
GoogleExchange(scn) ==
    LET p == scn.place IN
    CASE scn.kind = "network_error" -> Exchange("ClientConnectorError", FALSE, None)
      [] scn.kind = "timeout"       -> Exchange("TimeoutError", FALSE, None)
      [] scn.kind = "http_error"    -> Exchange("", FALSE, None)
      [] scn.kind = "bad_json"      -> Exchange("", TRUE, None)
      [] scn.kind = "no_match"      ->
            Exchange("", TRUE,
                     Some([status  |-> << "Z","E","R","O","_","R","E","S","U","L","T","S" >>,
                           results |-> << >>]))
      [] scn.kind = "malformed"     ->
            Exchange("", TRUE, Some([status |-> << "O", "K" >>, results |-> << EmptyDict >>]))
      [] scn.kind = "found"         ->
            Exchange("", TRUE,
                Some([status  |-> << "O", "K" >>,
                      results |-> <<
                        [geometry |-> [location |-> [lat |-> float(p.lat).v,
                                                      lng |-> float(p.lon).v]],
                         formatted_address |->
                             join(<< ",", " " >>, << p.road, p.town, upper(p.country_code) >>),
                         address_components |->
                             GoogleComponent("route", p.road, p.road)
                             \o GoogleComponent("postal_town", p.town, p.town)
                             \o GoogleComponent("administrative_area_level_2",
                                                p.county, p.county)
                             \o GoogleComponent("administrative_area_level_1",
                                                p.state, p.state)
                             \o GoogleComponent("country", p.country_code,
                                                upper(p.country_code))
                             \o GoogleComponent("postal_code", p.postcode, p.postcode)] >>]))

\* the exchange with the keyless provider in a scenario
NominatimExchange(scn) ==
    LET p == scn.place
        field(k, v) == IF v = << >> THEN EmptyDict ELSE k :> v
    IN
    CASE scn.kind = "network_error" -> Exchange("ClientConnectorError", FALSE, None)
      [] scn.kind = "timeout"       -> Exchange("TimeoutError", FALSE, None)
      [] scn.kind = "http_error"    -> Exchange("", FALSE, None)
      [] scn.kind = "bad_json"      -> Exchange("", TRUE, None)
      [] scn.kind = "no_match"      -> Exchange("", TRUE, Some(<< >>))
      [] scn.kind = "malformed"     -> Exchange("", TRUE, Some(<< EmptyDict >>))
      [] scn.kind = "found"         ->
            Exchange("", TRUE,
                Some(<< [name    |-> p.name,
                         lat     |-> p.lat,
                         lon     |-> p.lon,
                         address |-> field("road", p.road) @@ field("town", p.town)
                                     @@ field("postcode", p.postcode)
                                     @@ field("country_code", p.country_code)
                                     @@ field("state", p.state)
                                     @@ field("county", p.county)] >>))

\* what the collaborators would answer during one invocation
World(scn, confirm, platform, fail_at) ==
    [google    |-> GoogleExchange(scn),
     nominatim |-> NominatimExchange(scn),
     confirm   |-> confirm,
     platform  |-> platform,
     fail_at   |-> fail_at]

---------------------------------------------------------------------------
(* The `batch-create` command (cli.py: batch_create)                       *)

\* "90", the default of duration_mins
T_90 == << "9", "0" >>

\* one entry of events_to_create, or the exception the row raised; duration,
\* date, t and start are what int(), strptime(), the split and replace() gave
RowEvent(heading, location, description, duration, date, t, start) ==
    IF duration.exc # "" THEN [exc |-> duration.exc, ev |-> EmptyDict]
    ELSE IF date.exc # "" THEN [exc |-> date.exc, ev |-> EmptyDict]
    ELSE IF t.exc # "" THEN [exc |-> t.exc, ev |-> EmptyDict]
    ELSE IF start.exc # "" THEN [exc |-> start.exc, ev |-> EmptyDict]
    ELSE [exc |-> "",
          ev  |-> [heading     |-> heading,
                   start       |-> start.v,
                   end         |-> PlusMinutes(start.v, duration.v),
                   duration    |-> duration.v,
                   location    |-> location,
                   description |-> description]]

\* a row whose date and time fields are read: date and t are what strptime()
\* and the split gave for them
RowTimed(row, date, t) ==
    RowEvent(strip(row["heading"]),
             IF strip(GetOr(row, "location", << >>)) # << >>
             THEN Some(strip(GetOr(row, "location", << >>))) ELSE None,
             strip(GetOr(row, "description", << >>)),
             int(OrStr(Some(strip(GetOr(row, "duration_mins", T_90))), T_90)),
             date, t, replace(date.v, t.hour, t.minute))

\* the body of `for row in rows`: the fields of one csv.DictReader row (a dict
\* from column names to str), parsed into one entry of events_to_create
ParseRow(row) ==
    IF {"heading", "date", "time"} \ DOMAIN row # {}
    THEN [exc |-> "KeyError", ev |-> EmptyDict]
    ELSE RowTimed(row, strptime(strip(row["date"])), SplitTime(strip(row["time"])))

\* one turn of the loop over rows (r) before the turns that follow (rest): a
\* row that raises ends the loop and the command
RowThen(r, rest) ==
    IF r.exc # "" THEN [exc |-> r.exc, events |-> << >>, failed_row |-> 1]
    ELSE [exc        |-> rest.exc,
          events     |-> << r.ev >> \o rest.events,
          failed_row |-> IF rest.failed_row = 0 THEN 0 ELSE rest.failed_row + 1]

\* `for row in rows`: events holds the rows composed before the first row
\* that raised, failed_row is the number of that row (0 when none raised)
RECURSIVE ComposeRows(_)
ComposeRows(rows) ==
    IF rows = << >> THEN [exc |-> "", events |-> << >>, failed_row |-> 0]
    ELSE RowThen(ParseRow(rows[1]), ComposeRows(Tail(rows)))

\* how the platform answers the i-th create_event of an invocation
AnswerAt(w, i) ==
    IF w.platform = "rejected" THEN (IF i = w.fail_at THEN "rejected" ELSE "ok")
    ELSE w.platform

\* create_event as _batch calls it for the i-th event: no location_data, no
\* meetup_prior, no subgroup
SubmitEvent(events, i, gid, w) ==
    create_event(
        EventData(gid, events[i].heading, events[i].start, events[i].end,
                  events[i].description, events[i].location, None, DefaultMeetupPrior,
                  None, DEFAULT_OWNER_IDS),
        i > 1, AnswerAt(w, i))

\* faulty variant of SentThen: the loop goes on after an exception
SentThen_GoesOn(sent, rest) ==
    IF sent.exc # ""
    THEN [exc    |-> sent.exc,
          log    |-> sent.log \o rest.log,
          posted |-> sent.posted \o rest.posted]
    ELSE [exc    |-> rest.exc,
          log    |-> sent.log \o << "echo Created" >> \o rest.log,
          posted |-> sent.posted \o rest.posted]

\* one turn of the loop of _batch (sent) before the turns that follow (rest):
\* an exception ends the loop
SentThen(sent, rest) ==
    IF sent.exc # "" THEN sent
    ELSE [exc    |-> rest.exc,
          log    |-> sent.log \o << "echo Created" >> \o rest.log,
          posted |-> sent.posted \o rest.posted]

\* `for evt in events_to_create`, from the i-th event on
RECURSIVE SubmitFrom(_, _, _, _)
SubmitFrom(events, i, gid, w) ==
    IF i > Len(events) THEN [exc |-> "", log |-> << >>, posted |-> << >>]
    ELSE SentThen(SubmitEvent(events, i, gid, w), SubmitFrom(events, i + 1, gid, w))

\* _batch: credentials, client, the loop
SubmitAll(cfg, events, gid, w) ==
    Submitted(get_credentials(cfg), SubmitFrom(events, 1, gid, w))

\* the end of batch_create: sub is what _batch did
BatchFinished(lg, nt, events, sub) ==
    Ended(IF sub.exc = "" THEN "created" ELSE sub.exc, lg \o sub.log, events, sub.posted, nt)

\* after the loop over rows (parsed): --dry-run, the confirmation and the
\* submission
BatchParsed(cfg, a, w, gid, parsed) ==
    IF parsed.exc # ""
    THEN Ended(parsed.exc,
               GroupLookup(a) \o << "open" >> \o [i \in 1..Len(parsed.events) |-> "preview"],
               parsed.events, << >>, NoNet)
    ELSE IF a.dry_run
    THEN Ended("dry_run",
               GroupLookup(a) \o << "open" >> \o [i \in 1..Len(parsed.events) |-> "preview"],
               parsed.events, << >>, NoNet)
    ELSE IF ~w.confirm
    THEN Ended("cancelled",
               GroupLookup(a) \o << "open" >> \o [i \in 1..Len(parsed.events) |-> "preview"]
                   \o << "confirm" >>,
               parsed.events, << >>, [NoNet EXCEPT !.confirm = Some(FALSE)])
    ELSE BatchFinished(
               GroupLookup(a) \o << "open" >> \o [i \in 1..Len(parsed.events) |-> "preview"]
                   \o << "confirm" >>,
               IF get_credentials(cfg).exc # "" THEN [NoNet EXCEPT !.confirm = Some(TRUE)]
               ELSE [NoNet EXCEPT !.confirm = Some(TRUE), !.platform = << w.platform >>],
               parsed.events, SubmitAll(cfg, parsed.events, gid, w))

\* a: [rows, group_id, dry_run], rows being list(csv.DictReader(f)); w: what
\* the collaborators would answer
batch_create(cfg, a, w) ==
    IF ~TruthyStr(a.group_id) /\ get_group_id(cfg).exc # ""
    THEN Ended(get_group_id(cfg).exc, GroupLookup(a), << >>, << >>, NoNet)
    ELSE IF a.rows = << >>
    THEN Ended("no_events", GroupLookup(a) \o << "open" >>, << >>, << >>, NoNet)
    ELSE BatchParsed(cfg, a, w,
                     IF TruthyStr(a.group_id) THEN Val(a.group_id) ELSE get_group_id(cfg).v,
                     ComposeRows(a.rows))

---------------------------------------------------------------------------
(* update_event (update_helpers.py)                                        *)

\* the options of one update_event call; event_id only names the event
Update(heading, start, end, meetup_prior, description, location_query, location_data) ==
    [heading        |-> heading,
     start          |-> start,
     end            |-> end,
     meetup_prior   |-> meetup_prior,
     description    |-> description,
     location_query |-> location_query,
     location_data  |-> location_data]

\* updates["startTimestamp"], and the meetup keys when meetup_prior is given
UpdateStart(start, meetup_prior) ==
    ("startTimestamp" :> strftime(start))
    @@ (IF IsNone(meetup_prior) THEN EmptyDict
        ELSE ("meetupTimestamp" :> strftime(PlusMinutes(start, 0 - Val(meetup_prior))))
             @@ ("meetupPrior" :> Val(meetup_prior)))

\* the updates dict before the location block
UpdateFields(u) ==
    (IF IsNone(u.heading) THEN EmptyDict ELSE "heading" :> Val(u.heading))
    @@ (IF IsNone(u.start) THEN EmptyDict ELSE UpdateStart(Val(u.start), u.meetup_prior))
    @@ (IF IsNone(u.end) THEN EmptyDict ELSE "endTimestamp" :> strftime(Val(u.end)))
    @@ (IF IsNone(u.description) THEN EmptyDict ELSE "description" :> Val(u.description))

\* from the location block on: providers are the providers geocode asked, loc
\* what the block ends with, platform how the platform answers the update
\* ("ok" or "login_failed"); the session is closed whatever happens
UpdateLocated(fields, providers, loc, platform) ==
    IF loc.exc # ""
    THEN [exc |-> loc.exc, asked |-> providers, updates |-> None,
          log |-> << "load_config", "get_client", "load_config" >> \o providers
                  \o << "close" >>]
    ELSE IF platform # "ok"
    THEN [exc |-> "AuthenticationError", asked |-> providers, updates |-> None,
          log |-> << "load_config", "get_client" >>
                  \o (IF providers = << >> THEN << >> ELSE << "load_config" >> \o providers)
                  \o << "update_event", "close" >>]
    ELSE [exc |-> "", asked |-> providers,
          updates |-> Some((IF IsNone(loc.v) THEN EmptyDict ELSE "location" :> Val(loc.v))
                           @@ fields),
          log |-> << "load_config", "get_client" >>
                  \o (IF providers = << >> THEN << >> ELSE << "load_config" >> \o providers)
                  \o << "update_event", "close" >>]

\* update_event(event_id, ...): w holds the exchanges the two providers would
\* have and the answer of the platform
update_event(cfg, u, w) ==
    IF get_credentials(cfg).exc # ""
    THEN [exc |-> get_credentials(cfg).exc, asked |-> << >>, updates |-> None,
          log |-> << "load_config" >>]
    ELSE IF IsNone(u.location_data) /\ ~IsNone(u.location_query)
    THEN UpdateLocated(UpdateFields(u), << GeocodeProvider(cfg) >>,
                       geocode(Val(u.location_query), cfg, w.google, w.nominatim),
                       w.platform)
    ELSE UpdateLocated(UpdateFields(u), << >>, [exc |-> "", v |-> u.location_data],
                       w.platform)

---------------------------------------------------------------------------
(* Inputs: the command lines and files the model tries                     *)

\* the largest number of rows of a CSV file
MaxRows == 3

U10 == << "U", "1", "0" >>

Headings ==
    {U10,
     U10 \o AWAY_heading_suffix,
     U10 \o AWAY_heading_suffix \o << " ", "(", "c", "u", "p", ")" >>,
     AWAY_heading_suffix \o AWAY_heading_suffix,
     \* the suffix without its last character
     U10 \o SubSeq(AWAY_heading_suffix, 1, Len(AWAY_heading_suffix) - 1),
     \* the suffix in lower case
     U10 \o << " ","-"," ","t","i","m","e"," ","a","n","d"," ","d","e","t","a","i","l","s",
               " ","t","b","c" >>}

T_14_00 == << "1", "4", ":", "0", "0" >>

TimeStrings ==
    {T_14_00,
     << "2", "3", ":", "5", "9" >>,
     << "9", ":", "5" >>,
     << "2", "5", ":", "0", "0" >>,
     << "1", "0", ":", "6", "0" >>,
     << "1", "0", ":", "0", "0", ":", "0", "0" >>,
     << "1", "0", "0", "0" >>,
     << "-", "1", ":", "3", "0" >>,
     << " ", "7", ":", "0", "5" >>,
     << "a", "b", ":", "c", "d" >>,
     << >>}

D_2026_03_07 == << "2", "0", "2", "6", "-", "0", "3", "-", "0", "7" >>

DateStrings ==
    {D_2026_03_07,
     << "2", "0", "2", "6", "-", "1", "2", "-", "3", "1" >>,
     << "2", "0", "2", "6", "-", "3", "-", "7" >>,
     << "2", "0", "2", "6", "-", "0", "2", "-", "3", "0" >>,
     << "0", "7", "/", "0", "3", "/", "2", "0", "2", "6" >>,
     << >>}

Durations == {None, Some(0), Some(0 - 10), Some(90)}

Leads == {None, Some(0), Some(0 - 5), Some(45)}

Cup == << "C", "u", "p" >>

Descriptions == {None, Some(<< >>), Some(Cup)}

Locations == {None, Some(<< >>), Some(PrioryQuery)}

\* << home, away >>
Templates == BOOLEAN \X BOOLEAN

G1 == << "G", "1" >>

G2 == << "G", "2" >>

Platforms == {"ok", "login_failed", "rejected"}

Found == [kind |-> "found", place |-> Priory]

\* the options of one `create` command line
Args(heading, date, start_time, duration, description, location, meetup_prior, tpl, group_id, subgroup_id, yes, dry_run) ==
    [heading      |-> heading,
     date         |-> date,
     start_time   |-> start_time,
     duration     |-> duration,
     description  |-> description,
     location     |-> location,
     meetup_prior |-> meetup_prior,
     home         |-> tpl[1],
     away         |-> tpl[2],
     group_id     |-> group_id,
     subgroup_id  |-> subgroup_id,
     yes          |-> yes,
     dry_run      |-> dry_run]

\* every combination of time, duration and lead with every template
FieldInputs ==
    {[a |-> Args(U10, D_2026_03_07, t, dur, None, None, lead, tpl, None, None, TRUE, TRUE),
      w |-> World(Found, TRUE, "ok", 1)] :
        t \in {None, Some(<< >>), Some(T_14_00), Some(<< "9", ":", "5" >>),
               Some(<< "2", "5", ":", "0", "0" >>)},
        dur \in Durations, lead \in Leads, tpl \in Templates}

\* every time string and date string
TimeInputs ==
    {[a |-> Args(U10, d, Some(t), None, None, None, None, tpl, None, None, TRUE, TRUE),
      w |-> World(Found, TRUE, "ok", 1)] :
        t \in TimeStrings, d \in DateStrings, tpl \in Templates}

\* every heading and description with every template
TextInputs ==
    {[a |-> Args(h, D_2026_03_07, None, None, desc, None, None, tpl, None, None, TRUE, TRUE),
      w |-> World(Found, TRUE, "ok", 1)] :
        h \in Headings, desc \in Descriptions, tpl \in Templates}

\* every location with every template and every answer of the provider
LocationInputs ==
    {[a |-> Args(U10, D_2026_03_07, None, None, None, loc, None, tpl, Some(G2), None, yes, ~yes),
      w |-> World(scn, TRUE, "ok", 1)] :
        loc \in Locations, tpl \in Templates, scn \in GeoScenarios, yes \in BOOLEAN}

\* every way of previewing, confirming and submitting
SubmitInputs ==
    {[a |-> Args(U10, D_2026_03_07, t, None, None, loc, None, tpl, gid, sub, yes, dry),
      w |-> World(scn, confirm, platform, 1)] :
        t \in {None, Some(<< "1", "0", "0", "0" >>)},
        loc \in {None, Some(PrioryQuery)}, tpl \in Templates,
        gid \in {None, Some(G2)}, sub \in {None, Some(<< "S", "1" >>)},
        yes \in BOOLEAN, dry \in BOOLEAN, confirm \in BOOLEAN, platform \in Platforms,
        scn \in {Found, [kind |-> "no_match", place |-> Priory]}}

CreateInputs ==
    FieldInputs \cup TimeInputs \cup TextInputs \cup LocationInputs \cup SubmitInputs

\* geocoding calls one process using update_helpers makes at most
MaxCalls == 2

\* 2026-03-07T14:00
Start_14_00 == ToOrdinal(2026, 3, 7) * 1440 + 14 * 60

\* the update_event calls tried
UpdateRequests ==
    {Update(Some(U10), None, None, None, None, None, None),
     Update(None, Some(Start_14_00), Some(Start_14_00 + 90), Some(45), Some(Cup), None, None),
     Update(None, Some(Start_14_00), None, None, None, Some(PrioryQuery), None),
     Update(None, None, None, None, None, Some(PrioryQuery), None),
     Update(None, None, None, None, None, Some(PrioryQuery), Some(HOME_location_data)),
     Update(None, None, None, None, None, None, Some(HOME_location_data))}

\* what the collaborators would answer during one update_event call
UpdateWorlds ==
    {[google    |-> GoogleExchange([kind |-> k, place |-> Priory]),
      nominatim |-> NominatimExchange([kind |-> k, place |-> Priory]),
      platform  |-> pf] :
        k \in {"found", "no_match", "network_error"}, pf \in {"ok", "login_failed"}}

\* one row of a CSV file with all six columns
Row(heading, date, time, duration_mins, location, description) ==
    [heading       |-> heading,
     date          |-> date,
     time          |-> time,
     duration_mins |-> duration_mins,
     location      |-> location,
     description   |-> description]

\* a fully explicit row
RowFull == Row(U10, D_2026_03_07, T_14_00, T_90, PrioryQuery, Cup)

\* a valid row with padded fields and the optional ones left empty
RowSparse ==
    Row(<< " ", "U", "1", "1", " " >>,
        << "2", "0", "2", "6", "-", "0", "3", "-", "1", "4" >>,
        << "0", "9", ":", "3", "0" >>, << >>, << >>, << >>)

\* an unparseable date
RowBadDate ==
    Row(U10, << "0", "7", "/", "0", "3", "/", "2", "0", "2", "6" >>, T_14_00, T_90, << >>, << >>)

\* an unparseable time
RowBadTime ==
    Row(U10, D_2026_03_07, << "1", "4", ".", "0", "0" >>, T_90, << >>, << >>)

\* a file without the time column: a required field is missing
RowNoTime ==
    [heading |-> U10, date |-> D_2026_03_07, duration_mins |-> T_90]

\* a duration that is not positive
RowNegative ==
    Row(U10, D_2026_03_07, T_14_00, << "-", "1", "0" >>, << >>, << >>)

RowSamples == {RowFull, RowSparse, RowBadDate, RowBadTime, RowNoTime, RowNegative}

RECURSIVE SeqsUpTo(_, _)
SeqsUpTo(S, n) ==
    IF n = 0 THEN {<< >>}
    ELSE LET shorter == SeqsUpTo(S, n - 1)
         IN  shorter \cup {Append(s, x) : s \in {t \in shorter : Len(t) = n - 1}, x \in S}

\* [dry_run, confirm, platform, fail_at]: every way a batch may go on after
\* the rows are parsed
BatchModes ==
    {[dry_run |-> TRUE, confirm |-> TRUE, platform |-> "ok", fail_at |-> 1],
     [dry_run |-> FALSE, confirm |-> FALSE, platform |-> "ok", fail_at |-> 1],
     [dry_run |-> FALSE, confirm |-> TRUE, platform |-> "ok", fail_at |-> 1],
     [dry_run |-> FALSE, confirm |-> TRUE, platform |-> "login_failed", fail_at |-> 1]}
    \cup {[dry_run |-> FALSE, confirm |-> TRUE, platform |-> "rejected", fail_at |-> k] :
              k \in 1..MaxRows}

BatchInputs ==
    {[a |-> [rows |-> rows, group_id |-> gid, dry_run |-> m.dry_run],
      w |-> World(Found, m.confirm, m.platform, m.fail_at)] :
        rows \in SeqsUpTo(RowSamples, MaxRows), gid \in {None, Some(G2)}, m \in BatchModes}

---------------------------------------------------------------------------
(* The state machine: one command-line process at a time                   *)

\* the keys and values `config-set` is tried with
ConfigSetInputs ==
    {<< "google_maps_api_key", << "K" >> >>,
     << "google_maps_api_key", << >> >>,
     << "group_id", G1 >>}

\* what the platform returns for the groups of the account; ok is FALSE when
\* the client cannot fetch them
GroupsAnswers ==
    {[ok |-> FALSE, groups |-> << >>],
     [ok |-> TRUE, groups |-> << >>],
     [ok |-> TRUE, groups |-> << [id |-> G1, name |-> << "C", "o", "l", "t", "s" >>] >>]}

Idle == outcome = "none"

\* no process using update_helpers is alive
HelperIdle == asked = << >> /\ updated = None

Init ==
    /\ config = EmptyDict
    /\ argv = [cmd |-> "none"]
    /\ net = NoNet
    /\ outcome = "none"
    /\ log = << >>
    /\ composed = << >>
    /\ posted = << >>
    /\ asked = << >>
    /\ updated = None

\* the process of command cmd with options a ends as r says
Ends(cmd, a, r) ==
    /\ argv' = [cmd |-> cmd, a |-> a]
    /\ net' = r.net
    /\ outcome' = r.outcome
    /\ log' = r.log
    /\ composed' = r.composed
    /\ posted' = r.posted

\* `fot create ...`
Create ==
    /\ Idle
    /\ HelperIdle
    /\ \E in \in CreateInputs : Ends("create", in.a, create_cmd(config, in.a, in.w))
    /\ UNCHANGED << config, asked, updated >>

\* `fot batch-create FILE ...`
BatchCreate ==
    /\ Idle
    /\ HelperIdle
    /\ HelperIdle
    /\ \E in \in BatchInputs : Ends("batch-create", in.a, batch_create(config, in.a, in.w))
    /\ UNCHANGED << config, asked, updated >>

\* `fot config-set KEY VALUE`
ConfigSet ==
    /\ Idle
    /\ \E kv \in ConfigSetInputs :
          /\ config' = (kv[1] :> kv[2]) @@ config
          /\ argv' = [cmd |-> "config-set", a |-> kv]
    /\ outcome' = "set"
    /\ log' = << "load_config", "save_config" >>
    /\ UNCHANGED << net, composed, posted, asked, updated >>

\* `fot config`: the credentials are saved first, then the groups are fetched
\* and the only group becomes the default one
Config ==
    /\ Idle
    /\ \E grps \in GroupsAnswers :
          LET saved == ("spond_username" :> << "u" >>) @@ ("spond_password" :> << "p" >>)
                       @@ config
          IN  /\ argv' = [cmd |-> "config", a |-> grps]
              /\ IF ~grps.ok
                 THEN /\ config' = saved
                      /\ outcome' = "AuthenticationError"
                      /\ log' = << "load_config", "save_config", "get_client", "close" >>
                 ELSE IF grps.groups = << >>
                 THEN /\ config' = saved
                      /\ outcome' = "no_groups"
                      /\ log' = << "load_config", "save_config", "get_client", "close" >>
                 ELSE /\ config' = ("group_id" :> grps.groups[1].id)
                                   @@ ("group_name" :> grps.groups[1].name)
                                   @@ saved
                      /\ outcome' = "set"
                      /\ log' = << "load_config", "save_config", "get_client", "close",
                                   "save_config" >>
    /\ UNCHANGED << net, composed, posted, asked, updated >>

\* the process ends: only the stored configuration outlives it
Exit ==
    /\ ~Idle
    /\ argv' = [cmd |-> "none"]
    /\ net' = NoNet
    /\ outcome' = "none"
    /\ log' = << >>
    /\ composed' = << >>
    /\ posted' = << >>
    /\ UNCHANGED << config, asked, updated >>

\* a process that imported update_helpers calls update_event(...); such a
\* process lives across config commands, and what it raises may be caught
UpdateEvent ==
    /\ Idle
    /\ Len(asked) < MaxCalls
    /\ \E u \in UpdateRequests, w \in UpdateWorlds :
          /\ asked' = asked \o update_event(config, u, w).asked
          /\ updated' = Some([exc     |-> update_event(config, u, w).exc,
                              log     |-> update_event(config, u, w).log,
                              updates |-> update_event(config, u, w).updates])
    /\ UNCHANGED << config, argv, net, outcome, log, composed, posted >>

\* the process that imported update_helpers ends
HelperExit ==
    /\ ~HelperIdle
    /\ asked' = << >>
    /\ updated' = None
    /\ UNCHANGED << config, argv, net, outcome, log, composed, posted >>

Next ==
    \/ Create
    \/ BatchCreate
    \/ ConfigSet
    \/ Config
    \/ Exit
    \/ UpdateEvent
    \/ HelperExit

Spec == Init /\ [][Next]_vars

---------------------------------------------------------------------------
(* Properties                                                              *)

IsCreate == argv.cmd = "create"

IsBatch == argv.cmd = "batch-create"

\* the exceptions a geocoding call may end with
GeocodeExceptions ==
    {"ClientConnectorError", "TimeoutError", "ContentTypeError", "KeyError"}

\* a provider was asked and no place was found
GeocodingFailed ==
    /\ net.provider # ""
    /\ \A i \in 1..Len(log) : log[i] # "echo Found"

\* the suffix of the away template
Suffix == AWAY_heading_suffix

\* the description of the selected template, empty without a template
TemplateDescription ==
    IF argv.a.home THEN HOME_description
    ELSE IF argv.a.away THEN AWAY_description
    ELSE << >>

\* C1: every event produced by `create` or by a batch row ends after it
\* starts, and its meetup time is not after its start.
C1_EndAfterStartMeetupBeforeStart ==
    (IsCreate \/ IsBatch) =>
        \A i \in 1..Len(composed) :
            /\ composed[i].end > composed[i].start
            /\ "meetup" \in DOMAIN composed[i] => composed[i].meetup <= composed[i].start

\* C2: a batch whose file is read composes every valid row and is not ended
\* by a bad row: as many events are composed as there are valid rows.
C2_BatchIsolatesBadRows ==
    (IsBatch /\ \E i \in 1..Len(log) : log[i] = "open") =>
        /\ outcome \notin {"ValueError", "KeyError"}
        /\ Len(composed)
              = Cardinality({i \in 1..Len(argv.a.rows) : ParseRow(argv.a.rows[i]).exc = ""})

\* C3: when the provider asked for a location gives no usable place, for
\* whatever reason, `create` does not end with the exception of the geocoding
\* call, and the event it composes carries the raw location text as feature
\* and address, without coordinates.
C3_GeocodingFailureNeverRaises ==
    (IsCreate /\ GeocodingFailed) =>
        /\ outcome \notin GeocodeExceptions
        /\ \A i \in 1..Len(composed) :
              /\ composed[i].location_data = None
              /\ composed[i].location_display = argv.a.location
        /\ \A i \in 1..Len(posted) :
              posted[i]["location"]
                  = [feature |-> Val(argv.a.location), address |-> Val(argv.a.location)]

\* C4: `create` with both --home and --away ends with a usage error and has
\* done nothing else: no configuration was read, no provider asked, nothing
\* previewed, nothing submitted.
C4_ConflictRejectedFirst ==
    (IsCreate /\ argv.a.home /\ argv.a.away) =>
        /\ strptime(argv.a.date).exc = "" => outcome = "UsageError"
        /\ outcome \in {"UsageError", "BadParameter"}
        /\ log = << >>
        /\ composed = << >>
        /\ posted = << >>
        /\ net = NoNet

C4_Witness ==
    IsCreate /\ argv.a.home /\ argv.a.away /\ outcome = "UsageError"
        /\ IsNone(argv.a.group_id) /\ ~TruthyStr(Get(config, "group_id"))

\* C5 as stated: each of time, duration and lead is `raw or template default
\* or baseline`, so that an explicit 0 or an explicit empty time falls through
\* to the template's default or the baseline.
C5_FalsyFallsThrough ==
    (IsCreate /\ composed # << >>) =>
        /\ composed[1].duration
              = OrInt(argv.a.duration, IF argv.a.away THEN 210 ELSE 75)
        /\ composed[1].meetup_prior = OrInt(argv.a.meetup_prior, 30)
        /\ ~TruthyStr(argv.a.start_time) => composed[1].start % 1440 = 600

\* C5 amended: an explicit value wins whatever it is, also 0 and the empty
\* time; an omitted one takes the template's default (duration 210 for away,
\* 75 for home; lead 30; time 10:00) and without a template the baseline
\* (time 10:00, duration 75, lead 30).
C5_ExplicitWinsElseTemplateElseBaseline ==
    (IsCreate /\ composed # << >>) =>
        /\ composed[1].duration
              = IF IsNone(argv.a.duration) THEN (IF argv.a.away THEN 210 ELSE 75)
                ELSE Val(argv.a.duration)
        /\ composed[1].meetup_prior
              = IF IsNone(argv.a.meetup_prior) THEN 30 ELSE Val(argv.a.meetup_prior)
        /\ IsNone(argv.a.start_time) => composed[1].start % 1440 = 600
        /\ argv.a.start_time = Some(T_14_00) => composed[1].start % 1440 = 840
        /\ argv.a.start_time # Some(<< >>)

C5_Witness ==
    /\ IsCreate /\ composed # << >> /\ argv.a.away
    /\ argv.a.duration = Some(0) /\ composed[1].duration = 0
    /\ IsNone(argv.a.meetup_prior) /\ composed[1].meetup_prior = 30
    /\ IsNone(argv.a.start_time)

\* HH:MM: two digits, a colon, two digits, hour 00-23 and minute 00-59
IsHHMM(s) ==
    /\ Len(s) = 5
    /\ s[3] = ":"
    /\ {s[1], s[2], s[4], s[5]} \subseteq Digits
    /\ DigitVal(s[1]) * 10 + DigitVal(s[2]) <= 23
    /\ DigitVal(s[4]) * 10 + DigitVal(s[5]) <= 59

\* `create` got as far as parsing the time
ReachedTimeParse ==
    /\ IsCreate
    /\ strptime(argv.a.date).exc = ""
    /\ ~(argv.a.home /\ argv.a.away)
    /\ composed # << >> \/ outcome \in {"BadParameter", "ValueError"}

\* C6: `create` with an explicit time ends with the invalid-time-format error
\* exactly when the time is not of the form HH:MM.
C6_OnlyHHMMAccepted ==
    (ReachedTimeParse /\ ~IsNone(argv.a.start_time)) =>
        (outcome = "BadParameter" /\ composed = << >>) <=> ~IsHHMM(Val(argv.a.start_time))

\* C7: `create` without --location asks no provider; the event carries the
\* fixed location of the home template with --home and no location otherwise.
C7_NoLocationNoGeocoding ==
    (IsCreate /\ IsNone(argv.a.location) /\ composed # << >>) =>
        /\ net.provider = "" /\ IsNone(net.exchange)
        /\ \A i \in 1..Len(log) : log[i] \notin {"echo Geocoding", "google", "nominatim"}
        /\ composed[1].location_data
              = IF argv.a.home THEN Some(HOME_location_data) ELSE None
        /\ ~argv.a.home => IsNone(composed[1].location_display)
        /\ \A i \in 1..Len(posted) :
              IF argv.a.home THEN posted[i]["location"] = HOME_location_data
              ELSE "location" \notin DOMAIN posted[i]

C7_Witness ==
    /\ IsCreate /\ IsNone(argv.a.location) /\ argv.a.home
    /\ posted # << >> /\ posted[1]["location"]["feature"] = HOME_feature

\* C8: with --away the composed heading is the given heading when it holds
\* the suffix and the given heading followed by the suffix otherwise, in which
\* case it holds the suffix once; composing the composed heading again leaves
\* it as it is; without --away the heading is the given one.
C8_SuffixIdempotent ==
    (IsCreate /\ composed # << >>) =>
        LET given == argv.a.heading
            out   == composed[1].heading
        IN  IF argv.a.away
            THEN /\ Contains(given, Suffix) => out = given
                 /\ ~Contains(given, Suffix) =>
                        out = given \o Suffix /\ Occurrences(out, Suffix) = 1
                 /\ ApplyHeadingSuffix(out, TRUE, AWAY_DEFAULTS) = out
            ELSE out = given

C8_Witness ==
    /\ IsCreate /\ composed # << >> /\ argv.a.away
    /\ argv.a.heading = U10 \o Suffix
    /\ composed[1].heading = U10 \o Suffix

\* C9: the composed description is the template's description, an empty line
\* and the user's when both are given, the one given when only one is, and
\* empty when none is.
C9_DescriptionMerge ==
    (IsCreate /\ composed # << >>) =>
        composed[1].description
            = IF ~IsNone(argv.a.description) /\ TemplateDescription # << >>
              THEN TemplateDescription \o << "\n", "\n" >> \o Val(argv.a.description)
              ELSE IF ~IsNone(argv.a.description) THEN Val(argv.a.description)
              ELSE TemplateDescription

C9_Witness ==
    /\ IsCreate /\ composed # << >> /\ argv.a.home
    /\ argv.a.description = Some(Cup)
    /\ composed[1].description = HOME_description \o << "\n", "\n" >> \o Cup

\* the `create` command line with no template and the fields of a row
ArgsOfRow(row, group_id) ==
    Args(row["heading"], row["date"], Some(row["time"]),
         Some(int(row["duration_mins"]).v),
         Some(row["description"]),
         IF row["location"] = << >> THEN None ELSE Some(row["location"]),
         None, << FALSE, FALSE >>, group_id, None, TRUE, FALSE)

\* C10: the event a batch submits for a fully explicit row is the event
\* `create` submits for the same fields without a template, the provider
\* answering the same.
C10_BatchRowEqualsCreate ==
    (IsBatch /\ outcome = "created") =>
        \A i \in 1..Len(posted) :
            argv.a.rows[i] = RowFull =>
                << posted[i] >>
                    = create_cmd(config, ArgsOfRow(argv.a.rows[i], argv.a.group_id),
                                 World(Found, TRUE, "ok", 1)).posted

\* `create` geocoded the location and a place was found
GeocodingFound ==
    /\ IsCreate
    /\ composed # << >>
    /\ net.provider # ""
    /\ \E i \in 1..Len(log) : log[i] = "echo Found"

\* the first result in the body the keyless provider answered with
NominatimResult == Val(Val(net.exchange).json)[1]

\* the first result in the body the keyed provider answered with
GoogleResult == Val(Val(net.exchange).json)["results"][1]

\* C11 as stated: the feature of a geocoded location is the name the provider
\* returned, and the raw query only when the provider returned none.
C11_FeatureIsProviderName ==
    GeocodingFound =>
        Val(composed[1].location_data)["feature"]
            = IF net.provider = "nominatim" /\ TruthyStr(Get(NominatimResult, "name"))
              THEN NominatimResult["name"]
              ELSE Val(argv.a.location)

\* C11 amended: on either provider the feature of a geocoded location is the
\* raw query, also when the provider returned a name; it is the feature of
\* the location submitted.
C11_FeatureIsQuery ==
    GeocodingFound =>
        /\ Val(composed[1].location_data)["feature"] = Val(argv.a.location)
        /\ \A i \in 1..Len(posted) :
              posted[i]["location"]["feature"] = Val(argv.a.location)

C11_Witness ==
    /\ GeocodingFound
    /\ net.provider = "nominatim"
    /\ NominatimResult["name"] = PrioryName
    /\ Val(composed[1].location_data)["feature"] = PrioryQuery
    /\ posted # << >>

\* name, then road unless it is the name, then town unless it is the name or
\* the road, joined by ", "
DedupedAddress(name, road, town) ==
    name
    \o (IF road # << >> /\ road # name THEN << ",", " " >> \o road ELSE << >>)
    \o (IF town # << >> /\ town \notin {name, road} THEN << ",", " " >> \o town ELSE << >>)

\* "The Priory School, Bedford Road, Hitchin"
PrioryShortAddress ==
    PrioryName \o << ",", " " >> \o PrioryRoad \o << ",", " " >> \o PrioryTown

\* C12 as stated: on either provider the address of a geocoded location is
\* the ", "-joined list of the place's name, its road unless equal to the
\* name, and its town unless equal to the name or the road, so that both
\* providers give the same address for the same place.
C12_AddressSameOnBothProviders ==
    GeocodingFound =>
        \E p \in Places :
            Val(composed[1].location_data)["address"]
                = DedupedAddress(p.name, p.road, p.town)

\* C12 amended: on the keyless provider the address is the ", "-joined list
\* of the name (the query when the provider returns none), the road unless
\* equal to the name and the town unless equal to the name or the road, so
\* that no part appears twice; on the keyed provider the address is the
\* provider's formatted address (the query when it returns none).
C12_AddressPerProvider ==
    GeocodingFound =>
        LET address == Val(composed[1].location_data)["address"]
            query   == Val(argv.a.location)
        IN  IF net.provider = "nominatim"
            THEN LET addr == IF "address" \in DOMAIN NominatimResult
                             THEN NominatimResult["address"] ELSE EmptyDict
                     name == OrStr(Get(NominatimResult, "name"), query)
                     road == OrStr(Get(addr, "road"), << >>)
                     town == TownOf(addr)
                 IN  /\ address = DedupedAddress(name, road, town)
                     /\ (name = road /\ road = town) => address = name
                     /\ (name = PrioryName /\ road = PrioryRoad /\ town = PrioryTown)
                            => address = PrioryShortAddress
            ELSE address = IF "formatted_address" \in DOMAIN GoogleResult
                           THEN GoogleResult["formatted_address"] ELSE query

C12_Witness ==
    /\ GeocodingFound
    /\ net.provider = "nominatim"
    /\ NominatimResult["name"] = Oval.name
    /\ NominatimResult["address"]["road"] = Oval.name
    /\ NominatimResult["address"]["town"] = Oval.name
    /\ Val(composed[1].location_data)["address"] = Oval.name

\* the provider the stored configuration selects: the keyed one when a
\* non-empty API key is stored
ConfiguredProvider ==
    IF "google_maps_api_key" \in DOMAIN config /\ config["google_maps_api_key"] # << >>
    THEN "google" ELSE "nominatim"

\* the provider entries of the log of the last invocation
ProviderEntries == {i \in 1..Len(log) : log[i] \in {"google", "nominatim"}}

Positions(e) == {i \in 1..Len(log) : log[i] = e}

\* the user declined the confirmation
Declined == ~argv.a.yes /\ net.confirm = Some(FALSE)

\* the submitted body p carries what the preview showed of the event ev
AsPreviewed(p, ev) ==
    /\ p["heading"] = ev.heading
    /\ p["startTimestamp"] = strftime(ev.start)
    /\ p["endTimestamp"] = strftime(ev.end)
    /\ p["meetupTimestamp"] = strftime(ev.meetup)
    /\ p["meetupPrior"] = ev.meetup_prior
    /\ ev.end = ev.start + ev.duration
    /\ p["description"] = ev.description
    /\ IF TruthyStr(ev.location_display)
       THEN "location" \in DOMAIN p /\ p["location"]["address"] = Val(ev.location_display)
       ELSE "location" \notin DOMAIN p

\* never more than one create call, and none before the preview
AtMostOnceAfterPreview ==
    /\ Len(posted) <= 1
    /\ Cardinality(Positions("POST")) = Len(posted)
    /\ \A i \in Positions("POST") : \E j \in Positions("preview") : j < i

\* C14 as stated: `create` issues no create call with --dry-run, when the
\* user declines or when composition fails, and otherwise issues exactly one,
\* after the preview, with the heading, times, lead, description and location
\* previewed.
C14_OnceUnlessDryRunDeclinedOrFailed ==
    IsCreate =>
        /\ AtMostOnceAfterPreview
        /\ IF composed = << >> \/ argv.a.dry_run \/ Declined
           THEN posted = << >>
           ELSE Len(posted) = 1 /\ AsPreviewed(posted[1], composed[1])

\* C14 amended: `create` issues no create call with --dry-run, when the user
\* declines, when composition fails, when no credentials are stored or when
\* the login fails, and otherwise issues exactly one, after the preview, with
\* the heading, times, lead, description and location previewed.
C14_OnceUnlessNotAuthenticated ==
    IsCreate =>
        /\ AtMostOnceAfterPreview
        /\ IF \/ composed = << >> \/ argv.a.dry_run \/ Declined
              \/ {"spond_username", "spond_password"} \ DOMAIN config # {}
              \/ net.platform = << "login_failed" >>
           THEN posted = << >>
           ELSE Len(posted) = 1 /\ AsPreviewed(posted[1], composed[1])

C14_Witness ==
    /\ IsCreate /\ outcome = "created"
    /\ ~argv.a.yes /\ net.confirm = Some(TRUE)
    /\ Len(posted) = 1
    /\ "location" \in DOMAIN posted[1]
    /\ posted[1]["location"]["address"] = PrioryShortAddress
    /\ Positions("preview") = {Len(log) - 6}
    /\ Positions("POST") = {Len(log) - 1}

\* C15: batch-create issues create calls only after every row was parsed and
\* previewed and the user confirmed; the i-th call carries the i-th row's
\* event; a call that fails is the last one, the calls before it stay
\* answered and nothing is undone; and a client session that was opened is
\* closed at the end of every outcome.
C15_BatchSubmitsInOrderAndStops ==
    IsBatch =>
        /\ posted # << >> =>
              /\ ~argv.a.dry_run /\ net.confirm = Some(TRUE)
              /\ Len(composed) = Len(argv.a.rows)
              /\ Cardinality(Positions("preview")) = Len(argv.a.rows)
        /\ \A i \in Positions("POST") \cup Positions("get_client") :
              /\ \E c \in Positions("confirm") : c < i
              /\ \A j \in Positions("preview") : j < i
        /\ Cardinality(Positions("POST")) = Len(posted)
        /\ Len(posted) <= Len(composed)
        /\ \A i \in 1..Len(posted) :
              /\ posted[i]["heading"] = composed[i].heading
              /\ posted[i]["startTimestamp"] = strftime(composed[i].start)
              /\ posted[i]["endTimestamp"] = strftime(composed[i].end)
        /\ \A i \in Positions("POST") :
              \/ log[i + 1] = "echo Created"
              \/ /\ outcome = "RuntimeError"
                 /\ i + 1 = Len(log)
        /\ outcome = "RuntimeError" =>
              Cardinality(Positions("echo Created")) = Len(posted) - 1
        /\ outcome = "created" =>
              /\ Len(posted) = Len(composed)
              /\ Cardinality(Positions("echo Created")) = Len(posted)
        /\ Cardinality(Positions("get_client")) <= 1
        /\ Positions("get_client") # {} => Positions("close") = {Len(log)}
        /\ Positions("get_client") = {} => Positions("close") = {}

C15_Witness ==
    /\ IsBatch /\ outcome = "RuntimeError"
    /\ Len(composed) = 3
    /\ Len(posted) = 2
    /\ Cardinality(Positions("echo Created")) = 1
    /\ log[Len(log)] = "close"

=============================================================================
